---- MODULE Spec2Model ----
(***************************************************************************)
(* Model of xml_validator.schema.Schema: one construction of a Schema      *)
(* (folder validation, discovery of *.xsd files, dependency analysis,      *)
(* choice of the main schema, materialization of the sandbox copy with     *)
(* rewritten schemaLocation values, compilation, cleanup), followed by the *)
(* branch of __main__.main that uses the Schema (Spec, MainSpec); the      *)
(* resolution pass alone (AnalysisSpec); direct calls of                   *)
(* _fix_schema_imports (FixSpec) and of _determine_main_schema             *)
(* (SelectSpec); and validate_xml of the standalone script xml_validator.py*)
(* (ScriptSpec).                                                           *)
(*                                                                         *)
(* File contents, paths and filenames are strings; the regular expressions *)
(* of the source are modelled character by character on those strings.     *)
(* Dependency trees (nested dicts keyed by filename) are modelled by value *)
(* as the set of their root-to-node key paths: the dict                    *)
(*   {"B.xsd": {"C.xsd": {}}, "C.xsd": {}}                                 *)
(* is {<<"B.xsd">>, <<"B.xsd","C.xsd">>, <<"C.xsd">>}.  A completed dict   *)
(* is never mutated after _build_dep_tree returns it, so sharing by        *)
(* reference and equality by value coincide.                               *)
(***************************************************************************)
EXTENDS Naturals, Integers, Sequences, FiniteSets, TLC

(***************************************************************************)
(* Bounds of the model.                                                    *)
(***************************************************************************)
\* Largest number of import statements in the whole folder.
MaxRefs == 3
\* Largest number of files of the folder that cannot be read.
MaxUnreadable == 1

(***************************************************************************)
(* Strings.                                                                *)
(***************************************************************************)
Ch(s, i) == SubSeq(s, i, i)

StartsAt(s, i, lit) ==
    /\ i >= 1
    /\ i + Len(lit) - 1 <= Len(s)
    /\ SubSeq(s, i, i + Len(lit) - 1) = lit

EndsWith(s, suf) ==
    /\ Len(suf) <= Len(s)
    /\ SubSeq(s, Len(s) - Len(suf) + 1, Len(s)) = suf

\* Some occurrence of lit in s starts at a position in from..upto.
OccursIn(s, lit, from, upto) ==
    \E k \in from..upto : StartsAt(s, k, lit)

Contains(s, lit) == OccursIn(s, lit, 1, Len(s))

SetMin(S) == CHOOSE x \in S : \A y \in S : x <= y

SetMax(S) == CHOOSE x \in S : \A y \in S : y <= x

\* Index of the first occurrence of lit at or after i; 0 if none.
IndexFrom(s, lit, i) ==
    LET at == { k \in i..Len(s) : StartsAt(s, k, lit) }
    IN  IF at = {} THEN 0 ELSE SetMin(at)

\* Index of the last occurrence of lit at or before i; 0 if none.
LastIndex(s, lit, i) ==
    LET at == { k \in 1..i : StartsAt(s, k, lit) }
    IN  IF at = {} THEN 0 ELSE SetMax(at)

\* str.replace(old, new): every non-overlapping occurrence, left to right.
RECURSIVE StrReplaceFrom(_, _, _, _)
StrReplaceFrom(s, old, new, i) ==
    LET k == IndexFrom(s, old, i)
    IN  IF k = 0 THEN SubSeq(s, i, Len(s))
        ELSE SubSeq(s, i, k - 1) \o new
               \o StrReplaceFrom(s, old, new, k + Len(old))

StrReplace(s, old, new) == StrReplaceFrom(s, old, new, 1)

UpperLetters == "ABCDEFGHIJKLMNOPQRSTUVWXYZ"
LowerLetters == "abcdefghijklmnopqrstuvwxyz"

\* Characters a and b are equal up to the case of a letter
\* (re.IGNORECASE).
FoldTable ==
    [c \in { Ch(UpperLetters, k) : k \in 1..Len(UpperLetters) } |->
       Ch(LowerLetters, CHOOSE k \in 1..Len(UpperLetters) :
                          Ch(UpperLetters, k) = c)]

FoldCh(c) == IF c \in DOMAIN FoldTable THEN FoldTable[c] ELSE c

EqNoCase(a, b) == a = b \/ FoldCh(a) = FoldCh(b)

\* lit matches at i, ignoring case.
StartsAtNoCase(s, i, lit) ==
    /\ i >= 1
    /\ i + Len(lit) - 1 <= Len(s)
    /\ \A j \in 1..Len(lit) : EqNoCase(Ch(s, i + j - 1), Ch(lit, j))

(***************************************************************************)
(* pathlib.Path(p).name and .suffix.                                       *)
(***************************************************************************)
RECURSIVE StripSlashes(_)
StripSlashes(p) ==
    IF Len(p) > 1 /\ EndsWith(p, "/")
    THEN StripSlashes(SubSeq(p, 1, Len(p) - 1))
    ELSE p

\* Path(p).name: the final path component.
PathName(p) ==
    LET q == StripSlashes(p)
        k == LastIndex(q, "/", Len(q))
    IN  SubSeq(q, k + 1, Len(q))

\* Path(p).suffix: from the last dot of the name, unless the dot is the
\* first or the last character of the name.
PathSuffix(p) ==
    LET n == PathName(p)
        k == LastIndex(n, ".", Len(n))
    IN  IF 1 < k /\ k < Len(n) THEN SubSeq(n, k, Len(n)) ELSE ""

(***************************************************************************)
(* Schema._extract_dependencies: the four patterns                         *)
(*   <TAG[^>]+schemaLocation="([^"]+)"      (re.IGNORECASE)                *)
(* scanned with re.findall.                                                *)
(***************************************************************************)
ImportTags == <<"<xs:import", "<xs:include", "<xsd:import", "<xsd:include">>

SchemaLocationAttr == "schemaLocation=\""

\* Positions p at which  schemaLocation="  can start once  TAG[^>]+  has
\* matched from i: at least one character other than > lies between the
\* tag and p, no > lies before p, and a non-empty value closed by a quote
\* follows.
AttrCandidates(s, i, tag) ==
    LET a  == i + Len(tag)
        gt == IndexFrom(s, ">", a)
        g  == IF gt = 0 THEN Len(s) + 1 ELSE gt
    IN  { p \in (a + 1)..g :
            /\ StartsAtNoCase(s, p, SchemaLocationAttr)
            /\ IndexFrom(s, "\"", p + Len(SchemaLocationAttr))
                  > p + Len(SchemaLocationAttr) }

\* re.findall(pattern, content, re.IGNORECASE) for one tag: the captured
\* values of the non-overlapping matches, scanning from position i.  The
\* greedy [^>]+ makes the match use the last candidate position.
RECURSIVE FindAllFrom(_, _, _)
FindAllFrom(s, tag, i) ==
    LET starts == { k \in i..Len(s) :
                      /\ StartsAtNoCase(s, k, tag)
                      /\ AttrCandidates(s, k, tag) # {} }
    IN  IF starts = {} THEN {}
        ELSE LET p == SetMax(AttrCandidates(s, SetMin(starts), tag))
                 v == p + Len(SchemaLocationAttr)
                 q == IndexFrom(s, "\"", v)
             IN  {SubSeq(s, v, q - 1)} \cup FindAllFrom(s, tag, q + 1)

FindAll(s, tag) == FindAllFrom(s, tag, 1)

\* The captured schemaLocation values of all four patterns.
ImportMatches(content) ==
    UNION { FindAll(content, ImportTags[t]) : t \in DOMAIN ImportTags }

(***************************************************************************)
(* Schema._fix_schema_imports: for every dependency, four re.sub calls.    *)
(* Every pattern starts with the literal schemaLocation=" , ends with a    *)
(* quote and matches no quote in between, so a match spans exactly one     *)
(* schemaLocation="VALUE" and the pattern is a condition on VALUE.         *)
(***************************************************************************)
\* base_name = dep_filename.replace("-Schema.xsd", '').replace(".xsd", '')
BaseName(dep_filename) ==
    StrReplace(StrReplace(dep_filename, "-Schema.xsd", ""), ".xsd", "")

\* VALUE matches the k-th pattern of the list for (dep_filename, base_name).
PatternMatches(k, v, dep_filename, base_name) ==
    CASE k = 1 -> \* [^"]*DEP
              EndsWith(v, dep_filename)
      [] k = 2 -> \* [^"]*/BASE[^"]*\.xsd
              /\ EndsWith(v, ".xsd")
              /\ OccursIn(v, "/" \o base_name, 1,
                          Len(v) - Len(".xsd") - Len(base_name))
      [] k = 3 -> \* [^"]*/DEP
              EndsWith(v, "/" \o dep_filename)
      [] k = 4 -> \* [^"]*/BASE/[^"]*
              Contains(v, "/" \o base_name \o "/")

NumPatterns == 4

\* re.sub(pattern_k, 'schemaLocation="DEP"', s), scanning from position i.
\* The pattern matches at position a of s: schemaLocation=" starts there,
\* a closing quote follows and the value in between satisfies the pattern.
MatchesAt(s, k, dep_filename, base_name, a) ==
    LET v == a + Len(SchemaLocationAttr)
        q == IndexFrom(s, "\"", v)
    IN  /\ StartsAt(s, a, SchemaLocationAttr)
        /\ q # 0
        /\ PatternMatches(k, SubSeq(s, v, q - 1), dep_filename, base_name)

RECURSIVE ReSubFrom(_, _, _, _, _)
ReSubFrom(s, k, dep_filename, base_name, i) ==
    LET at == { a \in i..Len(s) :
                  MatchesAt(s, k, dep_filename, base_name, a) }
    IN  IF at = {} THEN SubSeq(s, i, Len(s))
        ELSE LET a == SetMin(at)
                 q == IndexFrom(s, "\"", a + Len(SchemaLocationAttr))
             IN  SubSeq(s, i, a - 1)
                   \o SchemaLocationAttr \o dep_filename \o "\""
                   \o ReSubFrom(s, k, dep_filename, base_name, q + 1)

\* Mutant: the path through the version folder is replaced as a plain
\* string, wherever it stands in the text.
FixOneDepEverywhere(s, dep_filename, k) ==
    StrReplace(s, "../v1/" \o dep_filename, dep_filename)

\* The inner loop: the four substitutions for one dependency, in order.
RECURSIVE FixOneDep(_, _, _)
FixOneDep(s, dep_filename, k) ==
    IF k > NumPatterns THEN s
    ELSE FixOneDep(ReSubFrom(s, k, dep_filename, BaseName(dep_filename), 1),
                   dep_filename, k + 1)

\* The outer loop over the dependency list.
RECURSIVE FixFrom(_, _, _)
FixFrom(s, dependencies, j) ==
    IF j > Len(dependencies) THEN s
    ELSE FixFrom(FixOneDep(s, dependencies[j], 1), dependencies, j + 1)

fix_schema_imports(schema_content, dependencies) ==
    FixFrom(schema_content, dependencies, 1)

(***************************************************************************)
(* Dependency trees, by value: a tree is the set of its key paths.         *)
(***************************************************************************)
EmptyTree == {}

\* Mutant: the dependency is entered without its own tree.
AddLeaf(tree, d, sub) == tree \cup {<<d>>}

\* dep_tree[d] = sub
AddChild(tree, d, sub) ==
    tree \cup {<<d>>} \cup { <<d>> \o p : p \in sub }

\* tree.keys()
TreeKeys(tree) == { p[1] : p \in tree }

\* tree[d]
SubTree(tree, d) ==
    { Tail(p) : p \in { x \in tree : Len(x) > 1 /\ x[1] = d } }

\* Schema._get_all_deps_from_tree
RECURSIVE get_all_deps_from_tree(_)
get_all_deps_from_tree(tree) ==
    UNION { {dep_name} \cup get_all_deps_from_tree(SubTree(tree, dep_name)) :
              dep_name \in TreeKeys(tree) }

\* dep_trees.get(name, {})
TreeOf(dep_trees, name) ==
    IF name \in DOMAIN dep_trees THEN dep_trees[name] ELSE EmptyTree

\* Mutant: dep_count >= max_deps, so that a later equal count wins.
RECURSIVE MainFromLastWins(_, _, _, _, _)
MainFromLastWins(schemas, dep_trees, i, max_deps, main) ==
    IF i > Len(schemas) THEN main
    ELSE LET dep_count ==
               Cardinality(get_all_deps_from_tree(TreeOf(dep_trees, schemas[i])))
         IN  IF dep_count >= max_deps
             THEN MainFromLastWins(schemas, dep_trees, i + 1, dep_count, schemas[i])
             ELSE MainFromLastWins(schemas, dep_trees, i + 1, max_deps, main)

\* The selection loop of Schema._determine_main_schema from index i on,
\* with the running max_deps and main_schema.
RECURSIVE MainFrom(_, _, _, _, _)
MainFrom(schemas, dep_trees, i, max_deps, main) ==
    IF i > Len(schemas) THEN main
    ELSE LET dep_count ==
               Cardinality(get_all_deps_from_tree(TreeOf(dep_trees, schemas[i])))
         IN  IF dep_count > max_deps
             THEN MainFrom(schemas, dep_trees, i + 1, dep_count, schemas[i])
             ELSE MainFrom(schemas, dep_trees, i + 1, max_deps, main)

\* Mutant: main_schema keeps its initial value all_schemas[0].
determine_main_first(schemas, dep_trees) == schemas[1]

\* Schema._determine_main_schema, first component of the result.
determine_main(schemas, dep_trees) ==
    MainFrom(schemas, dep_trees, 1, -1, schemas[1])


(***************************************************************************)
(* The environment of one construction: the schema folder, the order in    *)
(* which glob lists it, the paths that exist relative to the working       *)
(* directory of the process, and the files that cannot be read.            *)
(***************************************************************************)
NamePool == <<"Main-Schema.xsd", "Common-Schema.xsd", "Types.xsd">>

RefPrefixes == {"", "../v1/"}

FolderKinds == {"missing", "file", "noaccess", "dir"}

Range(f) == { f[i] : i \in DOMAIN f }

Orderings(S) ==
    { p \in [1..Cardinality(S) -> S] :
        \A i, j \in DOMAIN p : p[i] = p[j] => i = j }

\* One import element referring to path.
ImportElement(path) ==
    "<xs:import " \o SchemaLocationAttr \o path \o "\"/>"

RECURSIVE ImportElements(_, _, _)
ImportElements(targets, prefix, i) ==
    IF i > Len(NamePool) THEN ""
    ELSE (IF NamePool[i] \in targets
          THEN ImportElement(prefix \o NamePool[i]) ELSE "")
           \o ImportElements(targets, prefix, i + 1)

\* The text of a schema file importing targets through prefix.
SchemaText(targets, prefix) ==
    "<xs:schema>" \o ImportElements(targets, prefix, 1) \o "</xs:schema>"

RECURSIVE SumCard(_, _)
SumCard(f, S) ==
    IF S = {} THEN 0
    ELSE LET x == CHOOSE y \in S : TRUE
         IN  Cardinality(f[x]) + SumCard(f, S \ {x})

VARIABLES
    folderKind,        \* what schema_folder names on disk
    folder,            \* the *.xsd files of the schema folder: name -> text
    globOrder,         \* the order in which glob("*.xsd") lists them
    cwdPaths,          \* the paths that exist relative to the working dir
    unreadable,        \* the files whose open() raises
    tempOnDisk,        \* the directory made by mkdtemp exists on disk
    tempFiles,         \* its files: name -> text
    temp_folder,       \* self.temp_folder
    schema,            \* self.schema
    pc,                \* the stage of __init__ that runs next
    raised,            \* the exception that left __init__, "None" if none
    all_schemas,       \* the list returned by _discover_schemas
    dependency_trees,  \* _analyze_schemas: name -> tree
    analyzed_schemas,  \* _analyze_schemas: the names visited
    loopIdx,           \* _analyze_schemas: index of the for loop
    stack,             \* the active calls of _build_dep_tree, outermost first
    main_schema,       \* the result of _analyze_schemas
    dependencies,
    copyIdx,           \* _create_temp_schema_copy: index of the for loop
    written,           \* every path written so far: <<directory, name>>
    submission,        \* main: what the engine says of the submitted document
    call,              \* a direct call of one method: arguments and results
    args,              \* main: the Namespace returned by parse_args
    submittedKind,     \* what the submitted file's path names on disk
    left_main,         \* how control left the entry point, "None" while inside
    printed,           \* the messages printed so far
    rmtrees            \* the calls of shutil.rmtree so far

env == <<folderKind, folder, globOrder, cwdPaths, unreadable>>
disk == <<tempOnDisk, tempFiles, written>>
analysis == <<all_schemas, dependency_trees, analyzed_schemas, loopIdx, stack>>
selection == <<main_schema, dependencies>>
program == <<args, submittedKind, left_main, printed, rmtrees>>
vars == <<env, disk, analysis, selection, temp_folder, schema, pc, raised,
          copyIdx, submission, call, program>>

None == "None"

StartOfInit ==
    /\ tempOnDisk = FALSE
    /\ tempFiles = <<>>
    /\ written = {}
    /\ temp_folder = None
    /\ schema = None
    /\ pc = "validate"
    /\ raised = None
    /\ all_schemas = <<>>
    /\ dependency_trees = <<>>
    /\ analyzed_schemas = {}
    /\ loopIdx = 1
    /\ stack = <<>>
    /\ main_schema = None
    /\ dependencies = <<>>
    /\ copyIdx = 1
    /\ submission = None
    /\ left_main = None
    /\ printed = <<>>
    /\ rmtrees = 0

\* A folder of the first k pool names, each importing some pool names
\* through one prefix; the working directory either resolves the references
\* to the files of the folder or resolves none.
DirInit ==
    \E k \in 0..Len(NamePool), prefix \in RefPrefixes :
      LET files == { NamePool[i] : i \in 1..k } IN
      \E refs \in [files -> SUBSET Range(NamePool)], order \in Orderings(files) :
        /\ SumCard(refs, files) <= MaxRefs
        /\ folderKind = "dir"
        /\ folder = [n \in files |-> SchemaText(refs[n], prefix)]
        /\ globOrder = order
        /\ cwdPaths \in { {}, { prefix \o n : n \in files } }
        /\ unreadable \in { S \in SUBSET files :
                              Cardinality(S) <= MaxUnreadable }

\* python -m xml_validator schema_folder submission_file
PlainArgs == [schema_info |-> FALSE, dry_run |-> FALSE, verbose |-> FALSE]

Init ==
    /\ StartOfInit
    /\ call = None
    /\ args = PlainArgs
    /\ submittedKind = "file"
    /\ \/ DirInit
       \/ /\ folderKind \in FolderKinds \ {"dir"}
          /\ folder = <<>>
          /\ globOrder = <<>>
          /\ cwdPaths = {}
          /\ unreadable = {}

(***************************************************************************)
(* Schema.__init__, stage by stage.                                        *)
(***************************************************************************)
Raise(exc) ==
    /\ raised' = exc
    /\ pc' = "failed"

\* self.schema_folder.exists()
FolderExists == folderKind # "missing"

\* self.schema_folder.is_dir()
FolderIsDir == folderKind \in {"dir", "noaccess"}

\* list(self.schema_folder.iterdir()) does not raise PermissionError
FolderListable == folderKind = "dir"

\* Mutant: no check at all.
validate_folder_unchecked == None

\* Mutant: the directory test comes before the existence test.
validate_folder_dir_first ==
    IF ~FolderIsDir THEN "ValueError: Path is not a directory"
    ELSE IF ~FolderExists THEN "FileNotFoundError: Schema folder not found"
    ELSE IF ~FolderListable THEN "PermissionError: Cannot access schema folder"
    ELSE None

\* The checks of Schema._validate_folder in their order: the exception
\* raised, None if none.
validate_folder ==
    IF ~FolderExists THEN "FileNotFoundError: Schema folder not found"
    ELSE IF ~FolderIsDir THEN "ValueError: Path is not a directory"
    ELSE IF ~FolderListable THEN "PermissionError: Cannot access schema folder"
    ELSE None

\* Mutant: the error of the folder check is recorded and discovery starts
\* all the same.
ValidateFolderAndGoOn ==
    /\ pc = "validate"
    /\ raised' = validate_folder
    /\ pc' = "discover"
    /\ UNCHANGED <<call, submission, program,
                   env, disk, analysis, selection, temp_folder, schema, copyIdx>>

\* Schema._validate_folder
ValidateFolder ==
    /\ pc = "validate"
    /\ IF validate_folder # None
       THEN Raise(validate_folder)
       ELSE pc' = "discover" /\ UNCHANGED raised
    /\ UNCHANGED <<call, submission, program,
                   env, disk, analysis, selection, temp_folder, schema, copyIdx>>

\* Mutant: the empty listing is handed on.
DiscoverWithoutCheck ==
    /\ pc = "discover"
    /\ all_schemas' = globOrder
    /\ pc' = "analyze"
    /\ UNCHANGED <<call, submission, program, raised,
                   env, disk, dependency_trees, analyzed_schemas, loopIdx,
                   stack, selection, temp_folder, schema, copyIdx>>

\* Schema._discover_schemas
DiscoverSchemas ==
    /\ pc = "discover"
    /\ IF globOrder = <<>>
       THEN /\ Raise("FileNotFoundError: No .xsd files found")
            /\ UNCHANGED all_schemas
       ELSE /\ all_schemas' = globOrder
            /\ pc' = "analyze"
            /\ UNCHANGED raised
    /\ UNCHANGED <<call, submission, program,
                   env, disk, dependency_trees, analyzed_schemas, loopIdx,
                   stack, selection, temp_folder, schema, copyIdx>>

\* dep_path.exists() of _extract_dependencies: the path as written,
\* resolved by the operating system against the working directory.
PathExists(dep_path) == dep_path \in cwdPaths

\* Mutant: a failing read is not noticed, the text is scanned all the same.
extract_despite_read_error(name) ==
    { PathName(m) :
        m \in { x \in ImportMatches(folder[name]) :
                  PathSuffix(x) = ".xsd" /\ PathExists(x) } }

\* Schema._extract_dependencies
extract_dependencies(name) ==
    IF name \in unreadable THEN {}
    ELSE { PathName(m) :
             m \in { x \in ImportMatches(folder[name]) :
                       PathSuffix(x) = ".xsd" /\ PathExists(x) } }

\* The entry of Schema._build_dep_tree(name): the new activation.
Frame(name) ==
    [name |-> name, todo |-> extract_dependencies(name), tree |-> EmptyTree]

Top == stack[Len(stack)]

SetTop(f) == [stack EXCEPT ![Len(stack)] = f]

\* existing_trees[name] = tree
Store(trees, name, tree) ==
    [n \in DOMAIN trees \cup {name} |-> IF n = name THEN tree ELSE trees[n]]

\* Mutant: the loop calls _build_dep_tree for every listed file, visited
\* before or not.
AnalyzeEvery ==
    /\ pc = "analyze"
    /\ stack = <<>>
    /\ loopIdx <= Len(all_schemas)
    /\ LET name == all_schemas[loopIdx] IN
         /\ analyzed_schemas' = analyzed_schemas \cup {name}
         /\ stack' = <<Frame(name)>>
         /\ UNCHANGED loopIdx
    /\ UNCHANGED <<call, submission, program,
                   env, disk, all_schemas, dependency_trees, selection,
                   temp_folder, schema, pc, raised, copyIdx>>

\* The for loop of Schema._analyze_schemas: one iteration, up to the call
\* of _build_dep_tree.
AnalyzeNext ==
    /\ pc = "analyze"
    /\ stack = <<>>
    /\ loopIdx <= Len(all_schemas)
    /\ LET name == all_schemas[loopIdx] IN
         IF name \notin analyzed_schemas
         THEN /\ analyzed_schemas' = analyzed_schemas \cup {name}
              /\ stack' = <<Frame(name)>>
              /\ UNCHANGED loopIdx
         ELSE /\ loopIdx' = loopIdx + 1
              /\ UNCHANGED <<analyzed_schemas, stack>>
    /\ UNCHANGED <<call, submission, program,
                   env, disk, all_schemas, dependency_trees, selection,
                   temp_folder, schema, pc, raised, copyIdx>>

\* Mutant: a reused dependency is recorded without its own tree.
ReuseAsLeaf(dep_tree, dep_filename) ==
    AddChild(dep_tree, dep_filename, EmptyTree)

\* Mutant: a dependency that has a tree already is left out.
SkipKnownDependency(dep_tree, dep_filename) == dep_tree

\* dep_tree[dep_filename] = existing_trees[dep_filename]
ReuseTree(dep_tree, dep_filename) ==
    AddChild(dep_tree, dep_filename, dependency_trees[dep_filename])

\* Mutant: no cycle guard, every dependency without a tree is analyzed.
AlwaysAnalyze(dep_filename) == TRUE

\* elif dep_filename not in analyzed_schemas
NotYetAnalyzed(dep_filename) == dep_filename \notin analyzed_schemas

\* (self.schema_folder / dep_filename).exists()
InSchemaFolder(dep_filename) == dep_filename \in DOMAIN folder

\* Mutant: a dependency that is being analyzed is recorded as a leaf.
IncludeAsLeaf(dep_tree, dep_filename) ==
    AddChild(dep_tree, dep_filename, EmptyTree)

\* A dependency that is being analyzed (a circular reference) or is not in
\* the folder is not included in the tree.
OmitDependency(dep_tree, dep_filename) == dep_tree

\* The for loop of Schema._build_dep_tree: one iteration, for the
\* dependency the set iteration yields next.
BuildDep ==
    /\ pc = "analyze"
    /\ stack # <<>>
    /\ \E dep_filename \in Top.todo :
         LET rest == [Top EXCEPT !.todo = Top.todo \ {dep_filename}] IN
         IF dep_filename \in DOMAIN dependency_trees
         THEN /\ stack' = SetTop([rest EXCEPT !.tree =
                                    ReuseTree(Top.tree, dep_filename)])
              /\ UNCHANGED analyzed_schemas
         ELSE IF NotYetAnalyzed(dep_filename) /\ InSchemaFolder(dep_filename)
              THEN \* the recursive call
                   /\ analyzed_schemas' = analyzed_schemas \cup {dep_filename}
                   /\ stack' = Append(SetTop(rest), Frame(dep_filename))
              ELSE /\ stack' = SetTop([rest EXCEPT !.tree =
                                    OmitDependency(Top.tree, dep_filename)])
                   /\ UNCHANGED analyzed_schemas
    /\ UNCHANGED <<call, submission, program,
                   env, disk, all_schemas, dependency_trees, loopIdx,
                   selection, temp_folder, schema, pc, raised, copyIdx>>

\* The return of Schema._build_dep_tree and the assignments of its caller.
BuildReturn ==
    /\ pc = "analyze"
    /\ stack # <<>>
    /\ Top.todo = {}
    /\ dependency_trees' = Store(dependency_trees, Top.name, Top.tree)
    /\ IF Len(stack) > 1
       THEN LET caller == stack[Len(stack) - 1] IN
            /\ stack' = [SubSeq(stack, 1, Len(stack) - 1)
                           EXCEPT ![Len(stack) - 1] =
                             [caller EXCEPT !.tree =
                                AddChild(caller.tree, Top.name, Top.tree)]]
            /\ UNCHANGED loopIdx
       ELSE /\ stack' = <<>>
            /\ loopIdx' = loopIdx + 1
    /\ UNCHANGED <<call, submission, program,
                   env, disk, all_schemas, analyzed_schemas, selection,
                   temp_folder, schema, pc, raised, copyIdx>>

\* Mutant: only the schemas of the main schema's tree are dependencies.
tree_schemas_only(schemas, main) ==
    SelectSeq(schemas,
              LAMBDA n : /\ n # main
                         /\ n \in get_all_deps_from_tree(
                                    TreeOf(dependency_trees, main)))

\* Schema._determine_main_schema, second component: all other schemas.
other_schemas(schemas, main) ==
    SelectSeq(schemas, LAMBDA n : n # main)

\* Mutant: a list of one schema is refused like the empty list.
DetermineNeedsTwo ==
    /\ pc = "analyze"
    /\ stack = <<>>
    /\ loopIdx > Len(all_schemas)
    /\ IF Len(all_schemas) <= 1
       THEN /\ Raise("RuntimeError: No schemas found to analyze.")
            /\ UNCHANGED selection
       ELSE /\ main_schema' = determine_main(all_schemas, dependency_trees)
            /\ dependencies' = other_schemas(all_schemas, main_schema')
            /\ pc' = "load"
            /\ UNCHANGED raised
    /\ UNCHANGED <<call, submission, program,
                   env, disk, analysis, temp_folder, schema, copyIdx>>

\* Schema._determine_main_schema, called when the loop has ended.
DetermineMainSchema ==
    /\ pc = "analyze"
    /\ stack = <<>>
    /\ loopIdx > Len(all_schemas)
    /\ IF all_schemas = <<>>
       THEN /\ Raise("RuntimeError: No schemas found to analyze.")
            /\ UNCHANGED selection
       ELSE /\ main_schema' = determine_main(all_schemas, dependency_trees)
            /\ dependencies' = other_schemas(all_schemas, main_schema')
            /\ pc' = "load"
            /\ UNCHANGED raised
    /\ UNCHANGED <<call, submission, program,
                   env, disk, analysis, temp_folder, schema, copyIdx>>

(***************************************************************************)
(* Schema._load_schema and Schema._create_temp_schema_copy.                *)
(***************************************************************************)
SchemaDir == "schema_folder"
TempDir == "temp_folder"

\* Mutant: only the dependencies are copied.
DependenciesOnly == dependencies

\* all_schema_files = [schema] + dependencies
AllSchemaFiles == <<main_schema>> \o dependencies

\* Mutant: the fixed copy is written over the original file.
SchemaFileInPlace(name) == <<SchemaDir, name>>

\* temp_schema_file = self.temp_folder / schema_path.name
TempSchemaFile(name) == <<TempDir, name>>

\* return self.temp_folder / schema
TempMainSchema == <<temp_folder, main_schema>>

\* open(path, 'w').write(text)
WriteFile(path, text) ==
    /\ written' = written \cup {path}
    /\ IF path[1] = TempDir
       THEN /\ tempFiles' = Store(tempFiles, path[2], text)
            /\ UNCHANGED folder
       ELSE /\ folder' = Store(folder, path[2], text)
            /\ UNCHANGED tempFiles

\* What the XML engine does with the sandboxed main schema: it compiles
\* it, rejects it as a schema (XMLSchemaParseError) or fails to parse it
\* as XML (XMLSyntaxError).
EngineOutcomes == {"ok", "XMLSchemaParseError", "XMLSyntaxError"}

\* The entry of Schema._load_schema and
\* self.temp_folder = Path(tempfile.mkdtemp())
CreateTempFolder ==
    /\ pc = "load"
    /\ IF main_schema = None
       THEN /\ Raise("RuntimeError: Main schema is not determined")
            /\ UNCHANGED <<temp_folder, tempOnDisk, tempFiles, copyIdx>>
       ELSE /\ temp_folder' = TempDir
            /\ tempOnDisk' = TRUE
            /\ tempFiles' = <<>>
            /\ copyIdx' = 1
            /\ pc' = "copy"
            /\ UNCHANGED raised
    /\ UNCHANGED <<call, submission, program,
                   env, written, analysis, selection, schema>>

\* One iteration of the copy loop: read, fix the imports, write the copy.
\* A failing read leaves _load_schema as RuntimeError (except Exception).
CopySchema ==
    /\ pc = "copy"
    /\ copyIdx <= Len(AllSchemaFiles)
    /\ LET name == AllSchemaFiles[copyIdx] IN
         IF name \in unreadable
         THEN /\ Raise("RuntimeError: Failed to load schema")
              /\ UNCHANGED <<folder, tempFiles, written, copyIdx>>
         ELSE /\ WriteFile(TempSchemaFile(name),
                           fix_schema_imports(folder[name], dependencies))
              /\ copyIdx' = copyIdx + 1
              /\ UNCHANGED <<pc, raised>>
    /\ UNCHANGED <<call, submission, program,
                   folderKind, globOrder, cwdPaths, unreadable, tempOnDisk,
                   analysis, selection, temp_folder, schema>>

\* etree.parse and etree.XMLSchema on the main schema's copy, and the two
\* except clauses.  The handler of XMLSchemaParseError formats
\* self.schema.name while self.schema is still None, which raises
\* AttributeError inside the handler.
CompileSchema ==
    /\ pc = "copy"
    /\ copyIdx > Len(AllSchemaFiles)
    /\ \E outcome \in EngineOutcomes :
         IF outcome = "ok"
         THEN /\ schema' = "XMLSchema"
              /\ pc' = "clean"
              /\ UNCHANGED raised
         ELSE IF outcome = "XMLSchemaParseError"
         THEN /\ Raise(IF schema = None
                       THEN "AttributeError: 'NoneType' object has no attribute 'name'"
                       ELSE "XMLSchemaParseError: Failed to parse main schema")
              /\ UNCHANGED schema
         ELSE /\ Raise("RuntimeError: Failed to load schema")
              /\ UNCHANGED schema
    /\ UNCHANGED <<call, submission, program,
                   env, disk, analysis, selection, temp_folder, copyIdx>>

\* Schema._clean_temp_files, the last statement of __init__.
CleanTempFiles ==
    /\ pc = "clean"
    /\ IF temp_folder # None /\ tempOnDisk
       THEN /\ tempOnDisk' = FALSE
            /\ tempFiles' = <<>>
            /\ temp_folder' = None
            /\ rmtrees' = rmtrees + 1
       ELSE UNCHANGED <<tempOnDisk, tempFiles, temp_folder, rmtrees>>
    /\ pc' = "done"
    /\ UNCHANGED <<call, submission, args, submittedKind, left_main, printed,
                   env, written, analysis, selection, schema, raised, copyIdx>>

(***************************************************************************)
(* __main__.try_validate_schema: the validation mode of main, on the       *)
(* Schema that load_schema has constructed.                                *)
(***************************************************************************)
\* str(e) of an exception written as "Type: message".
str(exc) ==
    LET i == IndexFrom(exc, ": ", 1)
    IN  IF i = 0 THEN exc ELSE SubSeq(exc, i + 2, Len(exc))

\* The methods that class Schema defines.
SchemaMethods ==
    {"__init__", "_validate_folder", "_discover_schemas",
     "_extract_dependencies", "_build_dep_tree", "_analyze_schemas",
     "_determine_main_schema", "_get_all_deps_from_tree", "_load_schema",
     "_create_temp_schema_copy", "_fix_schema_imports", "_clean_temp_files"}

\* The attributes that __init__ sets on the instance.
InstanceAttributes == {"schema_folder", "schema", "schema_doc", "temp_folder"}

\* getattr(schema, name) succeeds.
HasAttribute(name) == name \in SchemaMethods \cup InstanceAttributes

\* What the validation engine says of the submitted document.
EngineVerdicts == {"accepted", "rejected"}

\* schema.validate_xml_file(submission_file) inside the try of
\* try_validate_schema: the attribute lookup on the Schema instance raises
\* AttributeError, which except Exception catches; the error is printed and
\* the process exits with status 1.  raised holds the exception caught.
TryValidateSchema ==
    /\ pc = "done"
    /\ ~args.schema_info
    /\ ~HasAttribute("validate_xml_file")
    /\ submission' \in EngineVerdicts
    /\ raised' = "AttributeError: 'Schema' object has no attribute 'validate_xml_file'"
    /\ printed' = Append(printed,
                         (IF args.verbose THEN "Validation error: "
                                          ELSE "Error: ") \o str(raised'))
    /\ left_main' = "SystemExit(1)"
    /\ pc' = "exit"
    /\ UNCHANGED <<call, env, disk, analysis, selection, temp_folder, schema,
                   copyIdx, args, submittedKind, rmtrees>>

\* The except clause of load_schema: an exception of Schema(schema_folder)
\* is printed and sys.exit(1) raises SystemExit, which the except Exception
\* clause of main does not catch.
LoadSchemaFailed ==
    /\ pc = "failed"
    /\ left_main = None
    /\ printed' = Append(printed,
                         (IF args.verbose THEN "Error loading schema: "
                                          ELSE "Error: ") \o str(raised))
    /\ left_main' = "SystemExit(1)"
    /\ UNCHANGED <<call, submission, env, disk, analysis, selection,
                   temp_folder, schema, pc, raised, copyIdx, args,
                   submittedKind, rmtrees>>

\* try_schema_info, the branch of main for --schema-info: the root of the
\* compiled schema's document is printed and main returns.
TrySchemaInfo ==
    /\ pc = "done"
    /\ args.schema_info
    /\ printed' = printed \o <<"Target namespace: None",
                                "Schema root tag: xs:schema">>
    /\ left_main' = "return"
    /\ pc' = "exit"
    /\ UNCHANGED <<call, submission, env, disk, analysis, selection,
                   temp_folder, schema, raised, copyIdx, args,
                   submittedKind, rmtrees>>

Next ==
    \/ ValidateFolder
    \/ DiscoverSchemas
    \/ AnalyzeNext
    \/ BuildDep
    \/ BuildReturn
    \/ DetermineMainSchema
    \/ CreateTempFolder
    \/ CopySchema
    \/ CompileSchema
    \/ CleanTempFiles
    \/ TryValidateSchema
    \/ LoadSchemaFailed

Spec == Init /\ [][Next]_vars

(***************************************************************************)
(* The resolution pass alone: the constructions of Spec up to the choice   *)
(* of the main schema.                                                     *)
(***************************************************************************)
AnalysisNext ==
    \/ ValidateFolder
    \/ DiscoverSchemas
    \/ AnalyzeNext
    \/ BuildDep
    \/ BuildReturn
    \/ DetermineMainSchema

AnalysisSpec == Init /\ [][AnalysisNext]_vars

(***************************************************************************)
(* main with every combination of its flags, over the folders of at most   *)
(* MaxCliFiles files.                                                      *)
(***************************************************************************)
MaxCliFiles == 1

\* The flags of cli.parse_args that main receives.
ArgsSpace == [schema_info : BOOLEAN, dry_run : BOOLEAN, verbose : BOOLEAN]

MainInit ==
    /\ StartOfInit
    /\ call = None
    /\ args \in ArgsSpace
    /\ submittedKind = "file"
    /\ \/ DirInit /\ Cardinality(DOMAIN folder) <= MaxCliFiles
       \/ /\ folderKind \in FolderKinds \ {"dir"}
          /\ folder = <<>>
          /\ globOrder = <<>>
          /\ cwdPaths = {}
          /\ unreadable = {}

MainNext ==
    \/ Next
    \/ TrySchemaInfo

MainSpec == MainInit /\ [][MainNext]_vars

(***************************************************************************)
(* Direct calls of Schema._fix_schema_imports, as the unit tests make      *)
(* them: a schema text and a dependency list are handed to the method,     *)
(* and its result is handed to it once more.                               *)
(***************************************************************************)
\* Largest number of import elements of a schema text handed to the call.
MaxImports == 2

\* Filenames of dependencies: one is a suffix of another (Types.xsd of
\* CommonTypes.xsd) and one base name is a prefix of another (Common of
\* CommonTypes).
DepPool == <<"Common-Schema.xsd", "Types.xsd", "CommonTypes.xsd">>

\* How a schemaLocation value leads to the file: bare or through a version
\* folder.
LocationPrefixes == {"", "../v1/"}

\* The values of the schemaLocation attributes: a prefix and a filename,
\* or the path through a folder named after a base name
\* (the /CommonTypes/v14/ style of the fourth pattern).
LocationValues ==
    { p \o n : p \in LocationPrefixes, n \in Range(DepPool) }
      \cup {"../CommonTypes/v14/Types.xsd"}

\* Content of a schema that is no schemaLocation attribute.
Annotations == {"", "<!-- ../v1/Types.xsd -->"}

RECURSIVE ImportsOf(_, _)
ImportsOf(values, i) ==
    IF i > Len(values) THEN ""
    ELSE ImportElement(values[i]) \o ImportsOf(values, i + 1)

\* The schema texts handed to the call.
SchemaContents ==
    { "<xs:schema>" \o note \o ImportsOf(values, 1) \o "</xs:schema>" :
        note \in Annotations,
        values \in UNION { [1..n -> LocationValues] : n \in 0..MaxImports } }

\* The dependency lists handed to the call: any files, in any order.
DependencyLists == UNION { Orderings(S) : S \in SUBSET Range(DepPool) }

\* Everything but the call: no construction is running.
pass == <<program,
         env, disk, analysis, selection, temp_folder, schema, pc, raised,
          copyIdx, submission>>

FixInit ==
    /\ folderKind = "dir"
    /\ folder = <<>>
    /\ globOrder = <<>>
    /\ cwdPaths = {}
    /\ unreadable = {}
    /\ tempOnDisk = FALSE
    /\ tempFiles = <<>>
    /\ written = {}
    /\ temp_folder = None
    /\ schema = None
    /\ pc = "call"
    /\ raised = None
    /\ all_schemas = <<>>
    /\ dependency_trees = <<>>
    /\ analyzed_schemas = {}
    /\ loopIdx = 1
    /\ stack = <<>>
    /\ main_schema = None
    /\ dependencies = <<>>
    /\ copyIdx = 1
    /\ submission = None
    /\ args = None
    /\ submittedKind = "file"
    /\ left_main = None
    /\ printed = <<>>
    /\ rmtrees = 0
    /\ call \in [schema_content : SchemaContents,
                 dependencies : DependencyLists,
                 fixed_content : {None},
                 fixed_again : {None}]

\* fixed_content = schema._fix_schema_imports(schema_content, dependencies)
FixSchemaImports ==
    /\ pc = "call"
    /\ call.fixed_content = None
    /\ call' = [call EXCEPT !.fixed_content =
                   fix_schema_imports(call.schema_content, call.dependencies)]
    /\ UNCHANGED pass

\* The result handed to the method once more, with the same dependencies.
FixSchemaImportsAgain ==
    /\ pc = "call"
    /\ call.fixed_content # None
    /\ call.fixed_again = None
    /\ call' = [call EXCEPT !.fixed_again =
                   fix_schema_imports(call.fixed_content, call.dependencies)]
    /\ UNCHANGED pass

FixNext ==
    \/ FixSchemaImports
    \/ FixSchemaImportsAgain

FixSpec == FixInit /\ [][FixNext]_vars


(***************************************************************************)
(* The analysis pass as a function of the listing order: every result that *)
(* _build_dep_tree and _analyze_schemas can return, over the orders in     *)
(* which the dependency sets are iterated.  deps gives, for every file of  *)
(* the folder, the set that _extract_dependencies returns for it.          *)
(***************************************************************************)
RECURSIVE build_dep_tree(_, _, _, _)
RECURSIVE BuildLoop(_, _, _, _, _)

\* The for loop of _build_dep_tree over the dependencies not iterated yet:
\* the set of [tree, trees, analyzed] it can end with.
BuildLoop(deps, todo, dep_tree, existing_trees, analyzed) ==
    IF todo = {}
    THEN {[tree |-> dep_tree, trees |-> existing_trees,
           analyzed |-> analyzed]}
    ELSE UNION {
           IF dep_filename \in DOMAIN existing_trees
           THEN BuildLoop(deps, todo \ {dep_filename},
                          AddChild(dep_tree, dep_filename,
                                   existing_trees[dep_filename]),
                          existing_trees, analyzed)
           ELSE IF dep_filename \notin analyzed /\ dep_filename \in DOMAIN deps
           THEN UNION {
                  BuildLoop(deps, todo \ {dep_filename},
                            AddChild(dep_tree, dep_filename, r.tree),
                            Store(r.trees, dep_filename, r.tree),
                            r.analyzed) :
                  r \in build_dep_tree(deps, dep_filename, existing_trees,
                                       analyzed) }
           ELSE BuildLoop(deps, todo \ {dep_filename}, dep_tree,
                          existing_trees, analyzed) :
           dep_filename \in todo }

\* Schema._build_dep_tree(schema_path, existing_trees, analyzed_schemas)
build_dep_tree(deps, name, existing_trees, analyzed) ==
    BuildLoop(deps, deps[name], EmptyTree, existing_trees,
              analyzed \cup {name})

\* The for loop of Schema._analyze_schemas from index i on: the tree maps
\* it can end with.
RECURSIVE AnalyzeLoop(_, _, _, _, _)
AnalyzeLoop(deps, schemas, i, trees, analyzed) ==
    IF i > Len(schemas) THEN {trees}
    ELSE IF schemas[i] \in analyzed
    THEN AnalyzeLoop(deps, schemas, i + 1, trees, analyzed)
    ELSE UNION { AnalyzeLoop(deps, schemas, i + 1,
                             Store(r.trees, schemas[i], r.tree), r.analyzed) :
                 r \in build_dep_tree(deps, schemas[i], trees, analyzed) }

\* The tree maps that _analyze_schemas can build over the listing schemas.
analyze_schemas(deps, schemas) == AnalyzeLoop(deps, schemas, 1, <<>>, {})

(***************************************************************************)
(* _determine_main_schema called directly on a list and a tree map, next   *)
(* to the constructions of Spec, which call it at the end of the analysis. *)
(***************************************************************************)
\* The trees a direct call hands over for one schema.
TreePool ==
    {EmptyTree,
     AddChild(EmptyTree, "Types.xsd", EmptyTree),
     AddChild(EmptyTree, "Common-Schema.xsd",
              AddChild(EmptyTree, "Types.xsd", EmptyTree))}

\* schema._determine_main_schema(all_schemas, dep_trees) on an object made
\* by Schema.__new__.
DirectSelectInit ==
    /\ call = "_determine_main_schema"
    /\ \E files \in SUBSET Range(NamePool) :
         /\ all_schemas \in Orderings(files)
         /\ dependency_trees \in [files -> TreePool]
    /\ loopIdx = Len(all_schemas) + 1
    /\ pc = "analyze"
    /\ folderKind = "dir"
    /\ folder = <<>>
    /\ globOrder = <<>>
    /\ cwdPaths = {}
    /\ unreadable = {}
    /\ tempOnDisk = FALSE
    /\ tempFiles = <<>>
    /\ written = {}
    /\ temp_folder = None
    /\ schema = None
    /\ raised = None
    /\ analyzed_schemas = {}
    /\ stack = <<>>
    /\ main_schema = None
    /\ dependencies = <<>>
    /\ copyIdx = 1
    /\ submission = None
    /\ args = None
    /\ submittedKind = "file"
    /\ left_main = None
    /\ printed = <<>>
    /\ rmtrees = 0

SelectInit ==
    \/ Init
    \/ DirectSelectInit

\* A construction takes the steps of Next; a direct call is the one step
\* of _determine_main_schema.
SelectNext ==
    \/ call = None /\ ValidateFolder
    \/ call = None /\ DiscoverSchemas
    \/ call = None /\ AnalyzeNext
    \/ call = None /\ BuildDep
    \/ call = None /\ BuildReturn
    \/ DetermineMainSchema
    \/ call = None /\ CreateTempFolder
    \/ call = None /\ CopySchema
    \/ call = None /\ CompileSchema
    \/ call = None /\ CleanTempFiles
    \/ call = None /\ TryValidateSchema
    \/ call = None /\ LoadSchemaFailed

SelectSpec == SelectInit /\ [][SelectNext]_vars

(***************************************************************************)
(* The standalone script xml_validator.py: validate_xml and its helpers,   *)
(* over a folder of at most two files and a submitted path.                *)
(***************************************************************************)
\* The match of the first pattern of fix_schema_imports at position a,
\*   schemaLocation="[^"]*CommonTypes[^"]*\.xsd"
\* ends at the index returned; 0 if the pattern does not match there.
CommonTypesMatchEnd(s, a) ==
    LET v == a + Len(SchemaLocationAttr)
        q == IndexFrom(s, "\"", v)
    IN  IF /\ StartsAt(s, a, SchemaLocationAttr)
           /\ q # 0
           /\ EndsWith(SubSeq(s, v, q - 1), ".xsd")
           /\ OccursIn(SubSeq(s, v, q - 1), "CommonTypes", 1,
                       q - v - Len(".xsd") - Len("CommonTypes") + 1)
        THEN q ELSE 0

\* The slash that [^"]*/ of the second pattern ends on when the pattern is
\* tried at a: the last slash before the first quote of the value (a slash
\* further left would make [^/]+ end inside the value); 0 if none.
LastSlashOfValue(s, a) ==
    LET v == a + Len(SchemaLocationAttr)
        q == IndexFrom(s, "\"", v)
        p == IF q = 0 THEN 0 ELSE LastIndex(s, "/", q - 1)
    IN  IF StartsAt(s, a, SchemaLocationAttr) /\ p >= v THEN p ELSE 0

\* The match of the second pattern at position a,
\*   schemaLocation="[^"]*/([^/]+\.xsd)"
\* ends at the index returned; 0 if the pattern does not match there.  The
\* greedy [^/]+ runs to the next slash and gives back to the last  .xsd"
\* before it, which may lie beyond the quote that closes the value.
AfterSlashMatchEnd(s, a) ==
    LET p  == LastSlashOfValue(s, a)
        sl == IndexFrom(s, "/", p + 1)
        n  == IF sl = 0 THEN Len(s) + 1 ELSE sl
        es == { e \in (p + 2)..(n - 5) : StartsAt(s, e, ".xsd\"") }
    IN  IF p = 0 \/ es = {} THEN 0 ELSE SetMax(es) + 4

NumScriptPatterns == 2

ScriptMatchEnd(s, k, a) ==
    IF k = 1 THEN CommonTypesMatchEnd(s, a) ELSE AfterSlashMatchEnd(s, a)

\* The replacement of the match of pattern k at a.
ScriptReplacement(s, k, a) ==
    IF k = 1 THEN SchemaLocationAttr \o "CommonTypes-Schema.xsd" \o "\""
    ELSE SchemaLocationAttr
           \o SubSeq(s, LastSlashOfValue(s, a) + 1, AfterSlashMatchEnd(s, a))

\* re.sub(pattern_k, replacement_k, s), scanning from position i.
RECURSIVE ScriptReSubFrom(_, _, _)
ScriptReSubFrom(s, k, i) ==
    LET at == { a \in i..Len(s) : ScriptMatchEnd(s, k, a) # 0 }
    IN  IF at = {} THEN SubSeq(s, i, Len(s))
        ELSE LET a == SetMin(at)
             IN  SubSeq(s, i, a - 1) \o ScriptReplacement(s, k, a)
                   \o ScriptReSubFrom(s, k, ScriptMatchEnd(s, k, a) + 1)

\* fix_schema_imports(schema_content) of the script: the two substitutions
\* in order.
script_fix_schema_imports(schema_content) ==
    ScriptReSubFrom(ScriptReSubFrom(schema_content, 1, 1), 2, 1)

\* The files a folder of the script can hold and the values their import
\* statements carry.
ScriptPool == <<"FSA029-Schema.xsd", "CommonTypes-Schema.xsd">>
ScriptLocations ==
    {"../CommonTypes/v14/CommonTypes-Schema.xsd", "../v1/Types.xsd",
     "Types.xsd"}
SubmittedKinds == {"missing", "dir", "file"}

\* validate_inputs(schema_dir, submitted_file)
validate_inputs ==
    LET dir_is_valid  == FolderExists /\ FolderIsDir
        file_is_valid == submittedKind = "file"
    IN  dir_is_valid /\ file_is_valid

\* find_main_schema(temp_folder) for a listing of the temporary folder: the
\* first file whose name contains FSA029, None if there is none.
find_main_schema(listing) ==
    LET hits == { i \in DOMAIN listing : Contains(listing[i], "FSA029") }
    IN  IF hits = {} THEN None ELSE listing[SetMin(hits)]

ScriptInit ==
    /\ StartOfInit
    /\ pc = "validate"
    /\ call = None
    /\ args = None
    /\ submittedKind \in SubmittedKinds
    /\ cwdPaths = {}
    /\ \/ \E files \in SUBSET Range(ScriptPool) :
            /\ folderKind = "dir"
            /\ folder \in [files -> { "<xs:schema>" \o ImportElement(l)
                                        \o "</xs:schema>" :
                                      l \in ScriptLocations }]
            /\ globOrder \in Orderings(files)
            /\ unreadable \in { S \in SUBSET files :
                                  Cardinality(S) <= MaxUnreadable }
       \/ /\ folderKind \in FolderKinds \ {"dir"}
          /\ folder = <<>>
          /\ globOrder = <<>>
          /\ unreadable = {}

\* Mutant: validate_xml without its finally clause.
NoCleanup == UNCHANGED <<tempOnDisk, tempFiles, rmtrees>>

\* The finally clause of validate_xml, on the local variable temp_folder.
Finally ==
    IF temp_folder # None /\ tempOnDisk
    THEN /\ tempOnDisk' = FALSE
         /\ tempFiles' = <<>>
         /\ rmtrees' = rmtrees + 1
    ELSE UNCHANGED <<tempOnDisk, tempFiles, rmtrees>>

\* validate_xml returns: the finally clause runs and control goes back to
\* the caller.
ReturnFromScript ==
    /\ Finally
    /\ left_main' = "return"
    /\ pc' = "returned"
    /\ UNCHANGED raised

\* An exception is raised under the try of validate_xml, which has no
\* except clause: the finally clause runs and the exception goes on to the
\* caller.
RaiseInScript(exc) ==
    /\ Finally
    /\ raised' = exc
    /\ left_main' = exc
    /\ pc' = "returned"

\* validate_xml up to the call of create_temp_schemas.
ValidateInputs ==
    /\ pc = "validate"
    /\ IF validate_inputs
       THEN /\ pc' = "create"
            /\ UNCHANGED <<raised, left_main, printed, disk, rmtrees>>
       ELSE /\ printed' = Append(printed,
                "Paths provided do not lead to valid file types (xsd, xml)")
            /\ ReturnFromScript
            /\ UNCHANGED written
    /\ UNCHANGED <<call, submission, args, submittedKind, env, analysis,
                   selection, temp_folder, schema, copyIdx>>

\* create_temp_schemas: mkdtemp and the listing of the folder.  The
\* listing of a directory that cannot be read is empty or raises, by the
\* version of pathlib; the exception leaves create_temp_schemas before
\* validate_xml has bound temp_folder.
CreateTempSchemas ==
    /\ pc = "create"
    /\ tempOnDisk' = TRUE
    /\ tempFiles' = <<>>
    /\ \/ /\ all_schemas' = globOrder
          /\ copyIdx' = 1
          /\ pc' = "copy_files"
          /\ UNCHANGED <<raised, left_main>>
       \/ /\ ~FolderListable
          /\ raised' = "PermissionError: Permission denied"
          /\ left_main' = raised'
          /\ pc' = "returned"
          /\ UNCHANGED <<all_schemas, copyIdx>>
    /\ UNCHANGED <<call, submission, args, submittedKind, printed, rmtrees,
                   env, written, dependency_trees, analyzed_schemas, loopIdx,
                   stack, selection, temp_folder, schema>>

\* One iteration of the loop of create_temp_schemas.  A failing read
\* leaves create_temp_schemas, and validate_xml with temp_folder unbound.
CopyFile ==
    /\ pc = "copy_files"
    /\ copyIdx <= Len(all_schemas)
    /\ LET name == all_schemas[copyIdx] IN
         IF name \in unreadable
         THEN /\ raised' = "PermissionError: Permission denied"
              /\ left_main' = raised'
              /\ pc' = "returned"
              /\ UNCHANGED <<folder, tempFiles, written, copyIdx>>
         ELSE /\ WriteFile(TempSchemaFile(name),
                           script_fix_schema_imports(folder[name]))
              /\ copyIdx' = copyIdx + 1
              /\ UNCHANGED <<pc, raised, left_main>>
    /\ UNCHANGED <<call, submission, args, submittedKind, printed, rmtrees,
                   folderKind, globOrder, cwdPaths, unreadable, tempOnDisk,
                   analysis, selection, temp_folder, schema>>

\* create_temp_schemas returns and validate_xml binds temp_folder.
ReturnTempFolder ==
    /\ pc = "copy_files"
    /\ copyIdx > Len(all_schemas)
    /\ temp_folder' = TempDir
    /\ pc' = "find"
    /\ UNCHANGED <<call, submission, program, env, disk, analysis,
                   selection, schema, raised, copyIdx>>

\* find_main_schema over a listing of the temporary folder, and the
\* return of validate_xml when it finds no main schema.
FindMainSchema ==
    /\ pc = "find"
    /\ \E listing \in Orderings(DOMAIN tempFiles) :
         /\ main_schema' = find_main_schema(listing)
         /\ IF main_schema' = None
            THEN /\ printed' = Append(printed,
                     "Error: FSA029 schema not in the provided directory")
                 /\ ReturnFromScript
            ELSE /\ pc' = "compile"
                 /\ UNCHANGED <<printed, tempOnDisk, tempFiles, rmtrees,
                                left_main, raised>>
    /\ UNCHANGED <<call, submission, args, submittedKind, env, written,
                   analysis, dependencies, temp_folder, schema, copyIdx>>

\* etree.XMLSchema(etree.parse(file)) on the main schema's copy.
CompileMainSchema ==
    /\ pc = "compile"
    /\ \E outcome \in EngineOutcomes :
         IF outcome = "ok"
         THEN /\ schema' = "XMLSchema"
              /\ pc' = "submit"
              /\ UNCHANGED <<raised, left_main, tempOnDisk, tempFiles,
                             rmtrees>>
         ELSE /\ RaiseInScript(outcome \o ": Document is not a valid schema")
              /\ UNCHANGED schema
    /\ UNCHANGED <<call, submission, args, submittedKind, printed, env,
                   written, analysis, selection, temp_folder, copyIdx>>

\* etree.parse(submitted_file), schema.validate(submission) and the print
\* of the verdict.
ValidateSubmission ==
    /\ pc = "submit"
    /\ \/ /\ RaiseInScript("XMLSyntaxError: Document is empty")
          /\ UNCHANGED <<submission, printed>>
       \/ \E verdict \in EngineVerdicts :
            /\ submission' = verdict
            /\ printed' = Append(printed,
                 "Submitted file (submitted_file) is " \o
                   (IF verdict = "accepted" THEN "VALID" ELSE "INVALID"))
            /\ ReturnFromScript
    /\ UNCHANGED <<call, args, submittedKind, env, written, analysis,
                   selection, temp_folder, schema, copyIdx>>

ScriptNext ==
    \/ ValidateInputs
    \/ CreateTempSchemas
    \/ CopyFile
    \/ ReturnTempFolder
    \/ FindMainSchema
    \/ CompileMainSchema
    \/ ValidateSubmission

ScriptSpec == ScriptInit /\ [][ScriptNext]_vars

(***************************************************************************)
(* Properties.                                                             *)
(***************************************************************************)
\* __init__ has returned or raised.
Ended == pc \in {"done", "failed", "exit"}

\* _create_temp_schema_copy has written every copy.
Materialized == pc = "copy" /\ copyIdx > Len(AllSchemaFiles)

\* C1: after a resolution pass, successful or failed at any stage, the
\* temporary sandbox directory created for the pass no longer exists.
C1_SandboxRemovedOnEveryExit == Ended => ~tempOnDisk

\* C2: no step of a pass creates, modifies or deletes a file of the
\* original schema folder, and every write goes to a file inside the
\* temporary directory.
C2_OriginalsUntouched ==
    [][ /\ folder' = folder
        /\ \A path \in written' : path[1] = TempDir ]_vars

\* A pass has written sandbox copies of at least two schemas.
C2_Witness == Cardinality(written) >= 2 /\ tempOnDisk

\* The folder of the end-to-end scenario: Main-Schema.xsd importing
\* ../v1/Common-Schema.xsd, and Common-Schema.xsd importing nothing.
MainCommonFolder ==
    /\ folderKind = "dir"
    /\ unreadable = {}
    /\ folder = [n \in {"Main-Schema.xsd", "Common-Schema.xsd"} |->
                   IF n = "Main-Schema.xsd"
                   THEN SchemaText({"Common-Schema.xsd"}, "../v1/")
                   ELSE SchemaText({}, "")]

\* C3: in the end-to-end scenario, for every listing order, the sandboxed
\* Main-Schema.xsd refers to Common-Schema.xsd by its bare name and holds
\* no occurrence of ../v1/.
C3_MainCommonNormalized ==
    (MainCommonFolder /\ Materialized) =>
        /\ Contains(tempFiles["Main-Schema.xsd"],
                    SchemaLocationAttr \o "Common-Schema.xsd" \o "\"")
        /\ ~Contains(tempFiles["Main-Schema.xsd"], "../v1/")

\* C4: after materialization, every schemaLocation value of a sandboxed
\* copy whose final path segment names a discovered schema file, the main
\* schema included, is that bare filename.
C4_EveryReferenceFlat ==
    Materialized =>
        \A n \in DOMAIN tempFiles :
            \A v \in ImportMatches(tempFiles[n]) :
                PathName(v) \in Range(all_schemas) => v = PathName(v)

\* The analysis has ended and the main schema is chosen.
MainChosen == main_schema # None

\* The names occurring anywhere in a tree.
NamesIn(tree) == UNION { Range(p) : p \in tree }

\* The number of distinct filenames in the tree of file n.
CountOf(n) == Cardinality(NamesIn(TreeOf(dependency_trees, n)))

NoRepeat(p) == \A i, j \in DOMAIN p : p[i] = p[j] => i = j

RECURSIVE TodoTotal(_)
TodoTotal(i) ==
    IF i > Len(stack) THEN 0
    ELSE Cardinality(stack[i].todo) + TodoTotal(i + 1)

\* What is left of the analysis: the files not visited yet (each may open
\* a call with a dependency set of at most the name pool), the
\* dependencies still to be iterated, the active calls and the iterations
\* left of the outer loop.
AnalysisMeasure ==
    Cardinality(Range(all_schemas) \ analyzed_schemas) * (Len(NamePool) + 2)
      + TodoTotal(1) + Len(stack) + (Len(all_schemas) + 1 - loopIdx)

\* C5: _analyze_schemas terminates for every reference graph, cyclic ones
\* included: the recursion depth of _build_dep_tree never exceeds the
\* number of files; every step of the analysis decreases a natural-valued
\* measure, so the analysis takes finitely many steps; and at its end
\* every discovered file has a tree.
C5_AnalysisTerminates ==
    /\ [](Len(stack) <= Len(all_schemas))
    /\ [](MainChosen => DOMAIN dependency_trees = Range(all_schemas))
    /\ [][(pc = "analyze" /\ pc' = "analyze") =>
             AnalysisMeasure' < AnalysisMeasure]_vars

\* A pass over a folder in which two files refer to each other has ended
\* its analysis.
C5_Witness ==
    /\ MainChosen
    /\ \E f, g \in DOMAIN folder :
         /\ f # g
         /\ g \in extract_dependencies(f)
         /\ f \in extract_dependencies(g)

\* C6: no tree holds a cycle: no path of a tree holds a filename twice,
\* and the tree of file f never holds f.
C6_TreesAcyclic ==
    \A f \in DOMAIN dependency_trees :
        \A p \in dependency_trees[f] : NoRepeat(p) /\ f \notin Range(p)

\* Two files refer to each other; one is recorded in the other's tree, and
\* a third file has reused that tree.
C6_Witness ==
    /\ MainChosen
    /\ \E f, g, h \in DOMAIN folder :
         /\ f # g /\ h # f /\ h # g
         /\ g \in extract_dependencies(f)
         /\ f \in extract_dependencies(g)
         /\ <<g>> \in dependency_trees[f]
         /\ <<f, g>> \in dependency_trees[h]

\* C7: when files A and B both refer to C, the subtree under C in A's
\* tree equals the one in B's tree and C's own entry of the tree map.
C7_SharedSubtreeEqual ==
    \A a, b \in DOMAIN dependency_trees :
        \A c \in TreeKeys(dependency_trees[a]) \cap TreeKeys(dependency_trees[b]) :
            /\ c \in DOMAIN dependency_trees
            /\ SubTree(dependency_trees[a], c) = SubTree(dependency_trees[b], c)
            /\ SubTree(dependency_trees[a], c) = dependency_trees[c]

\* Two different files hold the same dependency in their trees.
C7_Witness ==
    /\ MainChosen
    /\ \E a, b \in DOMAIN dependency_trees :
         /\ a # b
         /\ TreeKeys(dependency_trees[a]) \cap TreeKeys(dependency_trees[b]) # {}

\* File x refers to the two other files of a three-file folder, which
\* refer to nothing.
ReachesBothOthers(x) ==
    /\ Cardinality(DOMAIN folder) = 3
    /\ x \in DOMAIN folder
    /\ (DOMAIN folder) \ {x} \subseteq extract_dependencies(x)
    /\ \A y \in (DOMAIN folder) \ {x} : extract_dependencies(y) = {}

\* C8: in a three-file set in which X reaches Y and Z, and Y and Z reach
\* nothing, X is chosen as main schema for every listing order, and the
\* dependencies are exactly Y and Z.
C8_ReachingFileIsMain ==
    pc = "load" =>
        \A x \in DOMAIN folder :
            ReachesBothOthers(x) =>
                /\ main_schema = x
                /\ Range(dependencies) = (DOMAIN folder) \ {x}
                /\ Len(dependencies) = 2

\* The file that reaches the two others is listed last and was chosen.
C8_Witness ==
    /\ pc = "load"
    /\ Len(all_schemas) = 3
    /\ ReachesBothOthers(all_schemas[3])
    /\ main_schema = all_schemas[3]

\* C9: the main schema is the file whose tree holds the largest number of
\* distinct filenames; among several files with the largest number it is
\* the first in discovery order.
C9_LargestCountFirstWins ==
    MainChosen =>
        \E i \in DOMAIN all_schemas :
            /\ all_schemas[i] = main_schema
            /\ \A j \in DOMAIN all_schemas :
                 CountOf(all_schemas[j]) <= CountOf(main_schema)
            /\ \A j \in 1..(i - 1) :
                 CountOf(all_schemas[j]) < CountOf(main_schema)

\* Two files tie on the largest count, which is not zero.
C9_Witness ==
    /\ MainChosen
    /\ CountOf(main_schema) > 0
    /\ \E n \in Range(all_schemas) :
         n # main_schema /\ CountOf(n) = CountOf(main_schema)

\* C10: the dependency list is every discovered filename except the main
\* schema: it never holds the main schema, main plus the list is the
\* discovered set, and a file not reachable from the main schema is in it.
C10_DependenciesAreAllOthers ==
    MainChosen =>
        /\ main_schema \notin Range(dependencies)
        /\ Range(dependencies) \cup {main_schema} = DOMAIN folder
        /\ Range(all_schemas) = DOMAIN folder
        /\ Len(dependencies) = Cardinality(DOMAIN folder) - 1

\* A file that does not occur in the main schema's tree is a dependency,
\* beside one that does.
C10_Witness ==
    /\ MainChosen
    /\ \E n, m \in Range(dependencies) :
         /\ n \notin NamesIn(TreeOf(dependency_trees, main_schema))
         /\ m \in NamesIn(TreeOf(dependency_trees, main_schema))

(***************************************************************************)
(* Properties of the direct calls of _fix_schema_imports.                  *)
(***************************************************************************)
\* The values of the schemaLocation="..." attributes of a text, in the
\* order of the text, from position i on.
RECURSIVE LocationsFrom(_, _)
LocationsFrom(s, i) ==
    LET a == IndexFrom(s, SchemaLocationAttr, i)
        v == a + Len(SchemaLocationAttr)
        q == IF a = 0 THEN 0 ELSE IndexFrom(s, "\"", v)
    IN  IF a = 0 \/ q = 0 THEN <<>>
        ELSE <<SubSeq(s, v, q - 1)>> \o LocationsFrom(s, q + 1)

Locations(s) == LocationsFrom(s, 1)

\* The call has returned.
Fixed == call.fixed_content # None

\* Every schemaLocation value of the text handed to the call is the bare
\* filename of a dependency.
AlreadyNormalized ==
    Range(Locations(call.schema_content)) \subseteq Range(call.dependencies)

\* C11: normalizing already-normalized import text is a no-op, for every
\* dependency list, also when one filename is a suffix of another; hence
\* normalizing twice gives what normalizing once gives.
C11_NormalizedIsNoOp ==
    (Fixed /\ AlreadyNormalized) =>
        /\ call.fixed_content = call.schema_content
        /\ call.fixed_again # None => call.fixed_again = call.fixed_content

\* C12: a schemaLocation value that ends in / followed by the filename d
\* of a dependency is rewritten to the bare name d, for every dependency
\* list in any order, and not to the name of another dependency whose
\* filename or base name overlaps with d.
C12_PathToDependencyBecomesItsName ==
    Fixed =>
        LET before == Locations(call.schema_content)
            after  == Locations(call.fixed_content)
        IN  /\ Len(after) = Len(before)
            /\ \A i \in DOMAIN before, d \in Range(call.dependencies) :
                   EndsWith(before[i], "/" \o d) => after[i] = d

\* The text outside the values of its schemaLocation="..." attributes,
\* from position i on.
RECURSIVE OutsideFrom(_, _)
OutsideFrom(s, i) ==
    LET a == IndexFrom(s, SchemaLocationAttr, i)
        v == a + Len(SchemaLocationAttr)
        q == IF a = 0 THEN 0 ELSE IndexFrom(s, "\"", v)
    IN  IF a = 0 \/ q = 0 THEN SubSeq(s, i, Len(s))
        ELSE SubSeq(s, i, v - 1) \o OutsideFrom(s, q)

Outside(s) == OutsideFrom(s, 1)

\* C13: every character outside a schemaLocation="..." value is present
\* and unchanged in the result, and a text without any schemaLocation
\* attribute is returned unchanged, for every dependency list.
C13_OnlyLocationValuesChange ==
    Fixed =>
        /\ Outside(call.fixed_content) = Outside(call.schema_content)
        /\ Locations(call.schema_content) = <<>> =>
              call.fixed_content = call.schema_content

\* A call that rewrote a reference of a text whose comment names the path
\* of a dependency.
C13_Witness ==
    /\ Fixed
    /\ call.fixed_content # call.schema_content
    /\ Contains(call.schema_content, "<!-- ../v1/Types.xsd -->")
    /\ "Types.xsd" \in Range(call.dependencies)

(***************************************************************************)
(* Properties of extraction and of the failures of a construction.         *)
(***************************************************************************)
\* The names whose schemaLocation path has the suffix .xsd and whose file
\* exists in the schema folder.
NamesInFolder(name) ==
    { PathName(m) :
        m \in { x \in ImportMatches(folder[name]) :
                  /\ PathSuffix(x) = ".xsd"
                  /\ PathName(x) \in DOMAIN folder } }

\* C14: _extract_dependencies admits the filename of a schemaLocation path
\* if and only if its suffix is .xsd and a file of that name exists in the
\* schema folder, whether or not the path as written resolves from the
\* working directory.
C14_AdmitsNamesInFolder ==
    pc = "analyze" =>
        \A name \in Range(all_schemas) \ unreadable :
            extract_dependencies(name) = NamesInFolder(name)

\* C15: a failing read makes _extract_dependencies return the empty set
\* and raise nothing: the unreadable file gets an empty tree, the analysis
\* is not aborted and the trees of all other files are still built.
C15_ReadErrorIsSwallowed ==
    /\ \A n \in unreadable \cap DOMAIN dependency_trees :
           dependency_trees[n] = EmptyTree
    /\ pc = "analyze" => raised = None
    /\ (pc = "failed" /\ folderKind = "dir" /\ globOrder # <<>>) => MainChosen
    /\ MainChosen => DOMAIN dependency_trees = Range(all_schemas)

\* The analysis has ended for a folder with an unreadable file that holds
\* an import which resolves, and another file has a tree that is not empty.
C15_Witness ==
    /\ pc = "load"
    /\ \E n \in unreadable :
         \E x \in ImportMatches(folder[n]) : PathExists(x)
    /\ \E m \in DOMAIN dependency_trees : dependency_trees[m] # EmptyTree

\* Nothing of discovery, analysis or the sandbox has happened.
NothingBegun ==
    /\ all_schemas = <<>>
    /\ analyzed_schemas = {}
    /\ dependency_trees = <<>>
    /\ stack = <<>>
    /\ main_schema = None
    /\ temp_folder = None
    /\ ~tempOnDisk
    /\ written = {}

\* C16: for a schema folder path that does not exist the construction
\* fails with FileNotFoundError (folder not found) before any temporary
\* directory is created: no discovery, analysis or sandbox step runs and
\* temp_folder stays unset.
C16_MissingFolderFailsFirst ==
    folderKind = "missing" =>
        /\ pc \in {"validate", "failed"}
        /\ pc = "failed" =>
              raised = "FileNotFoundError: Schema folder not found"
        /\ NothingBegun

\* The construction on a missing folder has failed.
C16_Witness == folderKind = "missing" /\ pc = "failed"

\* C17: for an existing folder without any .xsd file the construction
\* fails with FileNotFoundError (no .xsd files found), and no dependency
\* analysis or temporary directory creation takes place.
C17_EmptyFolderFailsInDiscovery ==
    (folderKind = "dir" /\ globOrder = <<>>) =>
        /\ pc \in {"validate", "discover", "failed"}
        /\ pc = "failed" =>
              raised = "FileNotFoundError: No .xsd files found"
        /\ NothingBegun

\* The construction on a listable folder without schemas has failed.
C17_Witness == folderKind = "dir" /\ globOrder = <<>> /\ pc = "failed"

\* C18: _validate_folder classifies the path in a fixed order: a missing
\* path is not found, an existing path that is no directory is invalid, a
\* directory that cannot be listed is an access error, and only a listable
\* directory passes.
C18_FolderClassifiedInOrder ==
    pc # "validate" =>
        /\ ~FolderExists =>
              (pc = "failed"
                 /\ raised = "FileNotFoundError: Schema folder not found")
        /\ (FolderExists /\ ~FolderIsDir) =>
              (pc = "failed" /\ raised = "ValueError: Path is not a directory")
        /\ (FolderIsDir /\ ~FolderListable) =>
              (pc = "failed"
                 /\ raised = "PermissionError: Cannot access schema folder")
        /\ FolderListable =>
              raised \notin {"FileNotFoundError: Schema folder not found",
                             "ValueError: Path is not a directory",
                             "PermissionError: Cannot access schema folder"}

\* _validate_folder has rejected a path that exists and is no directory.
C18_Witness == folderKind = "file" /\ pc = "failed"

\* C19: a failure while compiling the sandboxed main schema leaves
\* _load_schema as XMLSchemaParseError when the engine rejects the schema
\* and as RuntimeError 'Failed to load schema' otherwise; no other
\* exception type escapes _load_schema.
C19_LoadFailureIsTaxonomyError ==
    (pc = "failed" /\ temp_folder # None) =>
        raised \in {"XMLSchemaParseError: Failed to parse main schema",
                    "RuntimeError: Failed to load schema"}

\* C20: validating a submission through Schema.validate_xml_file, as the
\* validation mode of main does, gives a positive verdict when the
\* compiled schema accepts the document and fails with RuntimeError
\* 'Validation failed' when the schema rejects it.
C20_VerdictFollowsEngine ==
    pc = "exit" =>
        /\ submission = "accepted" => raised = None
        /\ submission = "rejected" => raised = "RuntimeError: Validation failed"

(***************************************************************************)
(* Properties of the sandbox, of the stages and of the analysis pass.      *)
(***************************************************************************)
\* C21: when _create_temp_schema_copy has run, the fresh temporary directory
\* holds exactly one file for every discovered schema, the main schema
\* included, each under its bare filename, nothing else has been written,
\* and the path returned is the main schema's copy in that directory.
C21_OneCopyPerSchema ==
    Materialized =>
        /\ DOMAIN tempFiles = Range(all_schemas)
        /\ Len(AllSchemaFiles) = Cardinality(Range(all_schemas))
        /\ written = { <<TempDir, name>> : name \in Range(all_schemas) }
        /\ TempMainSchema \in written
        /\ TempMainSchema[1] = TempDir
        /\ TempMainSchema[2] = main_schema

C21_Witness ==
    /\ Materialized
    /\ Len(all_schemas) = 3
    /\ main_schema # all_schemas[1]

\* The stage of __init__ that a position belongs to: 1 validate the folder,
\* 2 discover, 3 analyse and choose the main schema, 4 load, 5 clean,
\* 6 returned.
StageOf(at) ==
    CASE at = "validate" -> 1
      [] at = "discover" -> 2
      [] at = "analyze"  -> 3
      [] at \in {"load", "copy"} -> 4
      [] at = "clean"    -> 5
      [] at = "done"     -> 6
      [] OTHER           -> 0

\* C22: the stages of a construction run in the fixed order validate,
\* discover, analyse and choose, load, clean: a step leaves a stage only
\* for the next one or for the failure, so no stage is entered twice or
\* skipped; no stage runs once an error was raised; and each stage starts
\* on what the previous one has completed.
C22_StagesInFixedOrder ==
    /\ [][(StageOf(pc) > 0 /\ StageOf(pc') # StageOf(pc)) =>
             \/ pc' = "failed" /\ raised' # None
             \/ StageOf(pc') = StageOf(pc) + 1 /\ raised' = None
             \/ pc = "done" /\ pc' = "exit"]_vars
    /\ [][pc = "failed" => pc' = "failed"]_vars
    /\ [](StageOf(pc) > 0 => raised = None)
    /\ [](StageOf(pc) >= 2 => validate_folder = None)
    /\ [](StageOf(pc) >= 3 => all_schemas = globOrder /\ all_schemas # <<>>)
    /\ [](StageOf(pc) >= 4 =>
             MainChosen /\ DOMAIN dependency_trees = Range(all_schemas))
    /\ [](StageOf(pc) >= 5 => schema = "XMLSchema" /\ copyIdx > Len(AllSchemaFiles))
    /\ [](StageOf(pc) >= 6 => ~tempOnDisk)

\* A construction over several files has returned.
C22_Witness ==
    /\ pc = "done"
    /\ Len(all_schemas) >= 2
    /\ schema = "XMLSchema"

(***************************************************************************)
(* Properties of main.                                                     *)
(***************************************************************************)
\* main has evaluated schema.validate_xml_file(submission_file).
ValidationCalled ==
    /\ pc = "exit"
    /\ submission # None

\* C23: in a run of main with --dry-run, the paths and the schema structure
\* are checked and validate_xml_file is never called.
C23_DryRunNeverValidates == args.dry_run => ~ValidationCalled

\* C24: when the construction of Schema raises FileNotFoundError, or the
\* validation call raises RuntimeError, that same exception leaves main.
C24_ErrorReachesCaller ==
    (/\ left_main # None
     /\ \/ pc = "failed" /\ StartsAt(raised, 1, "FileNotFoundError")
        \/ ValidationCalled /\ StartsAt(raised, 1, "RuntimeError"))
        => left_main = raised

(***************************************************************************)
(* Properties of the standalone script.                                    *)
(***************************************************************************)
\* C25: validate_xml never lets an exception escape: when a step under its
\* try raises an exception with message m, it prints
\* 'Error during validation: m' and returns normally.
C25_ExceptionsAreReported ==
    (pc = "returned" /\ raised # None) =>
        /\ left_main = "return"
        /\ printed # <<>>
        /\ printed[Len(printed)] = "Error during validation: " \o str(raised)

\* C26: on every path on which create_temp_schemas has returned a folder
\* (valid verdict, invalid verdict, no main schema, an exception of a later
\* step) validate_xml removes the folder exactly once, when it is left;
\* when the inputs are invalid no folder is created and nothing is removed.
C26_TempFolderRemovedOnce ==
    /\ rmtrees <= 1
    /\ (temp_folder # None /\ pc # "returned") => (tempOnDisk /\ rmtrees = 0)
    /\ (temp_folder # None /\ pc = "returned") => (~tempOnDisk /\ rmtrees = 1)
    /\ ~validate_inputs =>
          (~tempOnDisk /\ temp_folder = None /\ rmtrees = 0)

\* validate_xml was left by an exception of the engine after
\* create_temp_schemas had returned.
C26_Witness ==
    /\ pc = "returned"
    /\ temp_folder # None
    /\ raised # None
    /\ left_main = raised
    /\ rmtrees = 1

(***************************************************************************)
(* Properties of the selection and of the analysis pass.                   *)
(***************************************************************************)
NoSchemasError == "RuntimeError: No schemas found to analyze."

\* C27: _determine_main_schema raises RuntimeError 'No schemas found to
\* analyze.' exactly when the list it is given is empty, and no
\* construction reaches that error: discovery fails first on a folder
\* without schema files.
C27_NoSchemasErrorOnlyOnEmptyList ==
    /\ (call # None /\ pc # "analyze") =>
          (raised = NoSchemasError <=> all_schemas = <<>>)
    /\ (call # None /\ pc # "analyze" /\ all_schemas # <<>>) =>
          (raised = None /\ main_schema \in Range(all_schemas))
    /\ call = None => raised # NoSchemasError

\* A direct call on the empty list has raised the error.
C27_Witness ==
    /\ call # None
    /\ all_schemas = <<>>
    /\ pc = "failed"
    /\ raised = NoSchemasError

\* The names of the active calls of _build_dep_tree, outermost first.
ActiveNames == [i \in DOMAIN stack |-> stack[i].name]

\* C28: _build_dep_tree is called exactly once for every discovered file
\* and never twice for one name: a call starts only for a discovered name
\* that is not in analyzed_schemas and puts it there before anything else,
\* a name enters analyzed_schemas only with its call, no name leaves it, a
\* tree is stored only for a name that has none, and when the pass has
\* ended the names analysed, the names with a tree and the discovered
\* files are the same.
C28_EveryFileAnalysedOnce ==
    /\ [][analyzed_schemas \subseteq analyzed_schemas']_vars
    /\ [][Len(stack') > Len(stack) =>
            LET name == stack'[Len(stack')].name IN
            /\ Len(stack') = Len(stack) + 1
            /\ name \notin analyzed_schemas
            /\ name \notin DOMAIN dependency_trees
            /\ name \in Range(all_schemas)
            /\ analyzed_schemas' = analyzed_schemas \cup {name}]_vars
    /\ [][analyzed_schemas' # analyzed_schemas =>
            Len(stack') = Len(stack) + 1]_vars
    /\ [][dependency_trees' # dependency_trees =>
            /\ DOMAIN dependency_trees' = DOMAIN dependency_trees \cup {Top.name}
            /\ Top.name \notin DOMAIN dependency_trees
            /\ \A n \in DOMAIN dependency_trees :
                 dependency_trees'[n] = dependency_trees[n]]_vars
    /\ [](/\ NoRepeat(ActiveNames)
          /\ Range(ActiveNames) \subseteq analyzed_schemas
          /\ DOMAIN dependency_trees \subseteq analyzed_schemas
          /\ Range(ActiveNames) \cap DOMAIN dependency_trees = {})
    /\ [](MainChosen =>
            /\ analyzed_schemas = Range(all_schemas)
            /\ DOMAIN dependency_trees = analyzed_schemas)

\* The pass has ended over a listing in which a file stands after a file
\* whose tree holds it: its only call was the recursive one.
C28_Witness ==
    /\ MainChosen
    /\ \E i, j \in DOMAIN all_schemas :
         /\ i < j
         /\ all_schemas[j] \in NamesIn(TreeOf(dependency_trees, all_schemas[i]))

\* What _extract_dependencies returns for every file of the folder.
DirectDeps == [f \in DOMAIN folder |-> extract_dependencies(f)]

\* The admitted references among the files of deps: for every file, the
\* files of the folder among its dependencies.
Admitted(deps) == [f \in DOMAIN deps |-> deps[f] \cap DOMAIN deps]

Refs == Admitted(DirectDeps)

RECURSIVE ReachFrom(_, _)
ReachFrom(refs, S) ==
    LET T == S \cup UNION { refs[g] : g \in S }
    IN  IF T = S THEN S ELSE ReachFrom(refs, T)

\* The files reachable from f in one or more references of refs.
Reach(refs, f) == ReachFrom(refs, refs[f])

\* g lies on a cycle of refs through another file.
OnCycle(refs, g) ==
    \E h \in Reach(refs, g) : h # g /\ g \in Reach(refs, h)

\* No cycle through two or more files can be reached from f.
CycleFree(refs, f) ==
    \A g \in Reach(refs, f) \cup {f} : ~OnCycle(refs, g)

\* C29: for every discovered file f, the names in f's tree are exactly the
\* discovered files transitively reachable from f through admitted
\* references, f itself excluded, for every reference graph, cyclic ones
\* included.
C29_TreeNamesAreReachableFiles ==
    pc = "load" =>
        \A refs \in {Refs}, f \in DOMAIN folder :
            NamesIn(TreeOf(dependency_trees, f)) = Reach(refs, f) \ {f}

\* C29 amended: the names in f's tree are always among the discovered
\* files reachable from f, f excluded, and they are all of them when no
\* cycle through two or more files can be reached from f; a file visited
\* while a cycle through it is being analysed keeps a tree without the
\* files omitted for the cycle.
C29_TreeNamesWithinReachable ==
    pc = "load" =>
        \A refs \in {Refs}, f \in DOMAIN folder :
            /\ NamesIn(TreeOf(dependency_trees, f))
                  \subseteq Reach(refs, f) \ {f}
            /\ CycleFree(refs, f) =>
                 NamesIn(TreeOf(dependency_trees, f)) = Reach(refs, f) \ {f}

\* The pass has ended over a folder in which a file reaches a second file
\* through a first one and reaches no cycle: its tree holds both.
C29_Witness ==
    /\ pc = "load"
    /\ \E refs \in {Refs}, f, g \in DOMAIN folder :
         /\ CycleFree(refs, f)
         /\ g \in refs[f]
         /\ Reach(refs, g) \ {f, g} # {}
         /\ NamesIn(TreeOf(dependency_trees, f)) = Reach(refs, f) \ {f}

\* The reference graph has no cycle through two or more files.
Acyclic(refs) == \A f \in DOMAIN refs : ~OnCycle(refs, f)

\* Two files of the tree map tie for the largest count.
TieForLargest(trees) ==
    \E f, g \in DOMAIN trees :
      /\ f # g
      /\ Cardinality(NamesIn(trees[f])) = Cardinality(NamesIn(trees[g]))
      /\ \A h \in DOMAIN trees :
           Cardinality(NamesIn(trees[h])) <= Cardinality(NamesIn(trees[f]))

\* The pass over another listing order of the folder, with any iteration
\* order of the dependency sets, ends with the trees of this pass, and with
\* another main schema only on a tie.
SameForEveryOrder(deps) ==
    \A order \in Orderings(DOMAIN folder) :
      \A trees \in analyze_schemas(deps, order) :
        /\ trees = dependency_trees
        /\ determine_main(order, trees) # main_schema => TieForLargest(trees)

\* C30: the result of the analysis pass is independent of the discovery
\* order and of the iteration order of the dependency sets: every listing
\* order of the same folder yields the same tree for every file, and the
\* main schema chosen differs between orders only when two files tie for
\* the largest count.
C30_ResultIndependentOfOrder ==
    pc = "load" =>
        \A deps \in {DirectDeps} : SameForEveryOrder(deps)

\* C30 amended: over a folder whose references form no cycle through two
\* or more files, every listing order and every iteration order of the
\* dependency sets yield the same tree for every file, and the main schema
\* differs between orders only on a tie for the largest count.  (Every
\* pass, cyclic folders included, ends with one of the tree maps that the
\* analysis as a function of its listing order can return.)
C30_AcyclicResultIndependentOfOrder ==
    pc = "load" =>
        \A deps \in {DirectDeps} :
            /\ dependency_trees \in analyze_schemas(deps, all_schemas)
            /\ Acyclic(Admitted(deps)) => SameForEveryOrder(deps)

\* The pass has ended over an acyclic folder of three files in which a
\* file is listed before a file that refers to it and the main schema is
\* not the first file listed.
C30_Witness ==
    /\ pc = "load"
    /\ Len(all_schemas) = 3
    /\ main_schema # all_schemas[1]
    /\ \E refs \in {Refs} :
         /\ Acyclic(refs)
         /\ \E i, j \in DOMAIN all_schemas :
              i < j /\ all_schemas[i] \in refs[all_schemas[j]]

============================================================================
